---- MODULE Spec2Model ----
(***************************************************************************)
(* A model of the confidential record of dpc/src/record/record.rs:         *)
(* construction (new, new_noop, from), recovery from a ciphertext          *)
(* (from_account_view_key, from_record_view_key), re-encryption (encrypt), *)
(* serial numbers (to_serial_number), the plaintext codec and the binary   *)
(* and human-readable serialisations.                                      *)
(*                                                                         *)
(* The record functions are pure; the state machine holds one record "in   *)
(* hand", the last serialised artifact made from it and the result of the  *)
(* last decoding / recovery / serial-number call, so that the properties   *)
(* of compositions (encrypt then recover, write then read) are properties  *)
(* of reachable states.                                                    *)
(*                                                                         *)
(* Bytes are numbers 0..255, byte strings are sequences of bytes.  The     *)
(* field widths are network parameters; the model scales them down (the    *)
(* network's are 32, 128 and 48 bytes) and keeps the u64 width of value.   *)
(* The commitment scheme, the encryption scheme, the PRF, the key          *)
(* hierarchy and RecordCiphertext are collaborators whose code is outside  *)
(* record.rs; they are modelled by small arithmetic stand-ins with the     *)
(* interface the specification gives them.                                 *)
(***************************************************************************)
EXTENDS Integers, Sequences, FiniteSets

VARIABLES rec, origin, art, out, again

\* The prover's constraint system of
\* algorithms/src/snark/marlin/ahp/prover/constraint_system.rs and the record
\* of the calls made on it.
VARIABLES system, handed, calls, last

recvars == <<rec, origin, art, out, again>>
csvars == <<system, handed, calls, last>>
vars == <<rec, origin, art, out, again, system, handed, calls, last>>

----------------------------------------------------------------------------
(* Bounds of the model.                                                    *)

\* Number of accounts.
NumAccounts == 2
\* Number of values the randomness source yields.
MaxRandomness == 2
\* Scaled-down network widths, in bytes.
ADDRESS_SIZE_IN_BYTES == 1
RECORD_PAYLOAD_SIZE_IN_BYTES == 2
PROGRAM_ID_SIZE_IN_BYTES == 1
\* Width of a u64 in bytes.
VALUE_SIZE_IN_BYTES == 8

----------------------------------------------------------------------------
(* Byte strings.                                                           *)

Byte == 0..255

RECURSIVE ToBytesLE(_, _)
\* n written as w little-endian bytes (the higher bytes of n are dropped).
ToBytesLE(n, w) ==
    IF w = 0 THEN <<>> ELSE <<n % 256>> \o ToBytesLE(n \div 256, w - 1)

RECURSIVE FromBytesLE(_)
\* The number a little-endian byte string denotes.
FromBytesLE(bs) ==
    IF bs = <<>> THEN 0 ELSE bs[1] + 256 * FromBytesLE(Tail(bs))

\* bs[from .. from + n - 1]
Slice(bs, from, n) == SubSeq(bs, from, from + n - 1)

RECURSIVE Pow(_, _, _)
Pow(b, e, m) == IF e = 0 THEN 1 % m ELSE (b * Pow(b, e - 1, m)) % m

RECURSIVE WeightedSum(_, _)
\* sum of i * bs[i], offset by k
WeightedSum(bs, k) ==
    IF bs = <<>> THEN 0 ELSE (k * Head(bs) + WeightedSum(Tail(bs), k + 1)) % 65521

----------------------------------------------------------------------------
(* Key hierarchy (Address, ViewKey, ComputeKey): a subgroup of prime order  *)
(* 11 of the integers modulo 23, generated by 2.                            *)

GroupModulus == 23
GroupGenerator == 2

\* The accounts' private keys.
PrivateKeys == {sk + 2 : sk \in 1..NumAccounts}

\* ViewKey::from(private key)
ViewKeyOf(sk) == sk
\* ComputeKey::from(private key); sk_prf is its PRF secret.
ComputeKeyOf(sk) == [pk |-> sk, sk_prf |-> (7 * sk + 3) % 11]
\* Address::from_view_key
AddressFromViewKey(vk) == Pow(GroupGenerator, vk, GroupModulus)
\* Address::from_compute_key
AddressFromComputeKey(ck) == Pow(GroupGenerator, ck.pk, GroupModulus)
\* Address::from(private key)
AddressOf(sk) == AddressFromViewKey(ViewKeyOf(sk))

Addresses == {AddressOf(sk) : sk \in PrivateKeys}

----------------------------------------------------------------------------
(* EncryptionScheme, CommitmentScheme, PRF.                                *)

RANDOMIZER_SIZE_IN_BYTES == 1
RECORD_VIEW_KEY_SIZE_IN_BYTES == 1
KEY_COMMITMENT_SIZE_IN_BYTES == 1
COMMITMENT_SIZE_IN_BYTES == 1
\* Moduli of the scalar field and of the commitment's field.
ScalarModulus == 13
CommitmentModulus == 251

\* generate_asymmetric_key(recipient public key, rng): r is what the rng yields.
GenerateAsymmetricKey(address, r) ==
    [randomness |-> r,
     randomizer |-> Pow(GroupGenerator, r, GroupModulus),
     symmetric_key |-> Pow(address, r, GroupModulus)]

\* generate_symmetric_key(recipient private key, public randomizer)
GenerateSymmetricKey(vk, randomizer) == Pow(randomizer, vk, GroupModulus)

\* generate_key_commitment(symmetric key), as bytes
GenerateKeyCommitment(key) ==
    ToBytesLE((5 * key + 3) % 256, KEY_COMMITMENT_SIZE_IN_BYTES)

\* The i-th byte of the key stream of a symmetric key.
KeyStream(key, i) == (key * (2 * i + 1) + 11 * i) % 256

\* encrypt(symmetric key, plaintext): a ciphertext as long as the plaintext
SymmetricEncrypt(key, plaintext) ==
    [i \in 1..Len(plaintext) |-> (plaintext[i] + KeyStream(key, i)) % 256]

\* decrypt(symmetric key, ciphertext)
SymmetricDecrypt(key, ciphertext) ==
    [i \in 1..Len(ciphertext) |-> (ciphertext[i] + 256 - KeyStream(key, i)) % 256]

\* commit(message bytes, randomness)
Commit(message, randomness) ==
    (WeightedSum(message, 1) + 97 * randomness + 1) % CommitmentModulus

\* PRF evaluate(seed, input)
PRFEvaluate(seed, input) == (31 * seed + 17 * input + 5) % CommitmentModulus

----------------------------------------------------------------------------
(* Payload and program id.                                                 *)

\* Payload::default(): the all-zero payload.
PayloadDefault == [i \in 1..RECORD_PAYLOAD_SIZE_IN_BYTES |-> 0]
\* Payload::from_bytes_le of a pattern
PayloadOf(n) == ToBytesLE(n, RECORD_PAYLOAD_SIZE_IN_BYTES)
\* Payload::is_empty
PayloadIsEmpty(payload) == payload = PayloadDefault

\* N::noop_program_id()
NoopProgramId == 7

----------------------------------------------------------------------------
(* Results of fallible calls.                                              *)

Ok(v) == [tag |-> "Ok", val |-> v]
Err(e) == [tag |-> "Err", err |-> e]
\* An assertion failure aborts the call.
Panic(e) == [tag |-> "Panic", err |-> e]
IsOk(r) == r.tag = "Ok"

----------------------------------------------------------------------------
(* The plaintext codec.                                                    *)

BoolToByte(b) == IF b THEN 1 ELSE 0

\* The width decode_plaintext asserts.
PlaintextSize ==
    1 + ADDRESS_SIZE_IN_BYTES + 8 + RECORD_PAYLOAD_SIZE_IN_BYTES + PROGRAM_ID_SIZE_IN_BYTES

\* encode_plaintext writing the flag before the owner.
EncodePlaintext_FlagFirst(owner, value, payload, program_id) ==
    LET is_dummy == value = 0 /\ PayloadIsEmpty(payload) /\ program_id = NoopProgramId
        plaintext == <<BoolToByte(is_dummy)>>
                     \o ToBytesLE(owner, ADDRESS_SIZE_IN_BYTES)
                     \o ToBytesLE(value, VALUE_SIZE_IN_BYTES)
                     \o payload
                     \o ToBytesLE(program_id, PROGRAM_ID_SIZE_IN_BYTES)
    IN  IF Len(plaintext) <= 65535 THEN Ok(plaintext) ELSE Err("PlaintextTooLarge")

\* Record::encode_plaintext
EncodePlaintext(owner, value, payload, program_id) ==
    LET is_dummy == value = 0 /\ PayloadIsEmpty(payload) /\ program_id = NoopProgramId
        plaintext == ToBytesLE(owner, ADDRESS_SIZE_IN_BYTES)
                     \o <<BoolToByte(is_dummy)>>
                     \o ToBytesLE(value, VALUE_SIZE_IN_BYTES)
                     \o payload
                     \o ToBytesLE(program_id, PROGRAM_ID_SIZE_IN_BYTES)
    IN  IF Len(plaintext) <= 65535 THEN Ok(plaintext) ELSE Err("PlaintextTooLarge")

\* decode_plaintext reading the flag byte as a boolean (any nonzero byte is
\* true).
DecodePlaintext_FlagAsBool(plaintext) ==
    IF PlaintextSize # Len(plaintext) THEN Panic("assert_eq plaintext.len()")
    ELSE
    LET a == ADDRESS_SIZE_IN_BYTES
        owner == FromBytesLE(Slice(plaintext, 1, a))
        is_dummy == plaintext[a + 1] # 0
        value == FromBytesLE(Slice(plaintext, a + 2, VALUE_SIZE_IN_BYTES))
        payload == Slice(plaintext, a + 2 + VALUE_SIZE_IN_BYTES, RECORD_PAYLOAD_SIZE_IN_BYTES)
        program_id == FromBytesLE(Slice(plaintext,
                          a + 2 + VALUE_SIZE_IN_BYTES + RECORD_PAYLOAD_SIZE_IN_BYTES,
                          PROGRAM_ID_SIZE_IN_BYTES))
        expected_dummy == value = 0 /\ PayloadIsEmpty(payload) /\ program_id = NoopProgramId
    IN  IF is_dummy = expected_dummy
        THEN Ok([owner |-> owner, value |-> value, payload |-> payload,
                 program_id |-> program_id])
        ELSE Err("MalformedDummyFlag")

\* Record::decode_plaintext
DecodePlaintext(plaintext) ==
    IF PlaintextSize # Len(plaintext) THEN Panic("assert_eq plaintext.len()")
    ELSE
    LET a == ADDRESS_SIZE_IN_BYTES
        owner == FromBytesLE(Slice(plaintext, 1, a))
        is_dummy == plaintext[a + 1]
        value == FromBytesLE(Slice(plaintext, a + 2, VALUE_SIZE_IN_BYTES))
        payload == Slice(plaintext, a + 2 + VALUE_SIZE_IN_BYTES, RECORD_PAYLOAD_SIZE_IN_BYTES)
        program_id == FromBytesLE(Slice(plaintext,
                          a + 2 + VALUE_SIZE_IN_BYTES + RECORD_PAYLOAD_SIZE_IN_BYTES,
                          PROGRAM_ID_SIZE_IN_BYTES))
        expected_dummy == value = 0 /\ PayloadIsEmpty(payload) /\ program_id = NoopProgramId
    IN  IF is_dummy = BoolToByte(expected_dummy)
        THEN Ok([owner |-> owner, value |-> value, payload |-> payload,
                 program_id |-> program_id])
        ELSE Err("MalformedDummyFlag")

----------------------------------------------------------------------------
(* RecordCiphertext: the bytes randomizer, key commitment, encrypted        *)
(* plaintext.                                                               *)

\* RecordCiphertext::from(bytes)
RecordCiphertextFrom(bytes) == Ok(bytes)

\* RecordCiphertext::ciphertext_randomizer
CiphertextRandomizer(ciphertext) ==
    FromBytesLE(Slice(ciphertext, 1, RANDOMIZER_SIZE_IN_BYTES))

\* RecordCiphertext::to_plaintext(record view key): the key commitment segment
\* must be the commitment of the key; the rest is decrypted.
ToPlaintext(ciphertext, record_view_key) ==
    LET r == RANDOMIZER_SIZE_IN_BYTES
        k == KEY_COMMITMENT_SIZE_IN_BYTES
    IN  IF Slice(ciphertext, r + 1, k) # GenerateKeyCommitment(record_view_key)
        THEN Err("KeyCommitmentMismatch")
        ELSE Ok(SymmetricDecrypt(record_view_key,
                                 SubSeq(ciphertext, r + k + 1, Len(ciphertext))))

----------------------------------------------------------------------------
(* Construction.                                                           *)

\* Record::record_view_key_to_comm_randomness
RecordViewKeyToCommRandomness(record_view_key) ==
    FromBytesLE(ToBytesLE(record_view_key, RECORD_VIEW_KEY_SIZE_IN_BYTES)) % ScalarModulus

\* The bytes Record::from hands to RecordCiphertext::from.
ConstructionCiphertextBytes(randomizer, record_view_key, plaintext) ==
    ToBytesLE(randomizer, RANDOMIZER_SIZE_IN_BYTES)
    \o GenerateKeyCommitment(record_view_key)
    \o SymmetricEncrypt(record_view_key, plaintext)

\* The commitment of a ciphertext and an owner under a record view key.
ComputeCommitment(ciphertext, owner, record_view_key) ==
    Commit(ciphertext \o ToBytesLE(owner, ADDRESS_SIZE_IN_BYTES),
           RecordViewKeyToCommRandomness(record_view_key))

MakeRecord(owner, value, payload, program_id, randomizer, record_view_key, commitment) ==
    [owner |-> owner, value |-> value, payload |-> payload, program_id |-> program_id,
     randomizer |-> randomizer, record_view_key |-> record_view_key,
     commitment |-> commitment]

\* Record::from
From(owner, value, payload, program_id, randomizer, record_view_key) ==
    LET plaintext == EncodePlaintext(owner, value, payload, program_id)
    IN  IF ~IsOk(plaintext) THEN plaintext
        ELSE
        LET ciphertext == RecordCiphertextFrom(
                ConstructionCiphertextBytes(randomizer, record_view_key, plaintext.val))
        IN  IF ~IsOk(ciphertext) THEN ciphertext
            ELSE Ok(MakeRecord(owner, value, payload, program_id, randomizer,
                               record_view_key,
                               ComputeCommitment(ciphertext.val, owner, record_view_key)))

\* Record::new; r is what the rng yields.
New(owner, value, payload, program_id, r) ==
    LET k == GenerateAsymmetricKey(owner, r)
    IN  From(owner, value, payload, program_id, k.randomizer, k.symmetric_key)

\* Record::new_noop
NewNoop(owner, r) == New(owner, 0, PayloadDefault, NoopProgramId, r)

----------------------------------------------------------------------------
(* Recovery, re-encryption, serial numbers.                                *)

\* from_account_view_key without the comparison of the owners.
FromAccountViewKey_WithoutOwnerCheck(account_view_key, ciphertext) ==
    LET randomizer == CiphertextRandomizer(ciphertext)
        record_view_key == GenerateSymmetricKey(account_view_key, randomizer)
        plaintext == ToPlaintext(ciphertext, record_view_key)
    IN  IF ~IsOk(plaintext) THEN plaintext
        ELSE
        LET decoded == DecodePlaintext(plaintext.val)
        IN  IF ~IsOk(decoded) THEN decoded
            ELSE
            LET d == decoded.val
            IN  Ok(MakeRecord(d.owner, d.value, d.payload, d.program_id,
                              randomizer, record_view_key,
                              ComputeCommitment(ciphertext, d.owner, record_view_key)))

\* Record::from_account_view_key
FromAccountViewKey(account_view_key, ciphertext) ==
    LET randomizer == CiphertextRandomizer(ciphertext)
        record_view_key == GenerateSymmetricKey(account_view_key, randomizer)
        plaintext == ToPlaintext(ciphertext, record_view_key)
    IN  IF ~IsOk(plaintext) THEN plaintext
        ELSE
        LET decoded == DecodePlaintext(plaintext.val)
        IN  IF ~IsOk(decoded) THEN decoded
            ELSE
            LET d == decoded.val
                expected_owner == AddressFromViewKey(account_view_key)
            IN  IF d.owner = expected_owner
                THEN Ok(MakeRecord(d.owner, d.value, d.payload, d.program_id,
                                   randomizer, record_view_key,
                                   ComputeCommitment(ciphertext, d.owner, record_view_key)))
                ELSE Err("IncorrectOwner")

\* from_record_view_key committing to the ciphertext alone.
FromRecordViewKey_WithoutOwner(record_view_key, ciphertext) ==
    LET randomizer == CiphertextRandomizer(ciphertext)
        plaintext == ToPlaintext(ciphertext, record_view_key)
    IN  IF ~IsOk(plaintext) THEN plaintext
        ELSE
        LET decoded == DecodePlaintext(plaintext.val)
        IN  IF ~IsOk(decoded) THEN decoded
            ELSE
            LET d == decoded.val
            IN  Ok(MakeRecord(d.owner, d.value, d.payload, d.program_id,
                              randomizer, record_view_key,
                              Commit(ciphertext,
                                     RecordViewKeyToCommRandomness(record_view_key))))

\* Record::from_record_view_key
FromRecordViewKey(record_view_key, ciphertext) ==
    LET randomizer == CiphertextRandomizer(ciphertext)
        plaintext == ToPlaintext(ciphertext, record_view_key)
    IN  IF ~IsOk(plaintext) THEN plaintext
        ELSE
        LET decoded == DecodePlaintext(plaintext.val)
        IN  IF ~IsOk(decoded) THEN decoded
            ELSE
            LET d == decoded.val
            IN  Ok(MakeRecord(d.owner, d.value, d.payload, d.program_id,
                              randomizer, record_view_key,
                              ComputeCommitment(ciphertext, d.owner, record_view_key)))

\* encrypt writing the key commitment segment that from writes.
Encrypt_WithKeyCommitment(r) ==
    LET plaintext == EncodePlaintext(r.owner, r.value, r.payload, r.program_id)
    IN  IF ~IsOk(plaintext) THEN plaintext
        ELSE RecordCiphertextFrom(
                 ToBytesLE(r.randomizer, RANDOMIZER_SIZE_IN_BYTES)
                 \o GenerateKeyCommitment(r.record_view_key)
                 \o SymmetricEncrypt(r.record_view_key, plaintext.val))

\* Record::encrypt
Encrypt(r) ==
    LET plaintext == EncodePlaintext(r.owner, r.value, r.payload, r.program_id)
    IN  IF ~IsOk(plaintext) THEN plaintext
        ELSE RecordCiphertextFrom(
                 ToBytesLE(r.randomizer, RANDOMIZER_SIZE_IN_BYTES)
                 \o SymmetricEncrypt(r.record_view_key, plaintext.val))

\* is_dummy without the comparison of the program id.
IsDummy_IgnoresProgramId(r) ==
    r.value = 0 /\ PayloadIsEmpty(r.payload)

\* Record::is_dummy
IsDummy(r) ==
    r.value = 0 /\ PayloadIsEmpty(r.payload) /\ r.program_id = NoopProgramId

\* to_serial_number without the check of the compute key.
ToSerialNumber_Unchecked(r, compute_key) ==
    LET seed == FromBytesLE(ToBytesLE(compute_key.sk_prf, 1))
        input == r.commitment
    IN  Ok(PRFEvaluate(seed, input))

\* Record::to_serial_number
ToSerialNumber(r, compute_key) ==
    IF r.owner # AddressFromComputeKey(compute_key)
    THEN Err("IncorrectComputeKey")
    ELSE LET seed == FromBytesLE(ToBytesLE(compute_key.sk_prf, 1))
             input == r.commitment
         IN  Ok(PRFEvaluate(seed, input))

----------------------------------------------------------------------------
(* The binary form.                                                        *)

\* N::RECORD_SIZE_IN_BYTES
RecordSize ==
    ADDRESS_SIZE_IN_BYTES + VALUE_SIZE_IN_BYTES + RECORD_PAYLOAD_SIZE_IN_BYTES
    + PROGRAM_ID_SIZE_IN_BYTES + RANDOMIZER_SIZE_IN_BYTES + RECORD_VIEW_KEY_SIZE_IN_BYTES

\* ToBytes::write_le for Record
WriteLe(r) ==
    ToBytesLE(r.owner, ADDRESS_SIZE_IN_BYTES)
    \o ToBytesLE(r.value, VALUE_SIZE_IN_BYTES)
    \o r.payload
    \o ToBytesLE(r.program_id, PROGRAM_ID_SIZE_IN_BYTES)
    \o ToBytesLE(r.randomizer, RANDOMIZER_SIZE_IN_BYTES)
    \o ToBytesLE(r.record_view_key, RECORD_VIEW_KEY_SIZE_IN_BYTES)

\* read_le handing the randomizer and the record view key to from in each
\* other's place.
ReadLe_SwappedKeys(bytes) ==
    IF Len(bytes) < RecordSize THEN Err("UnexpectedEof")
    ELSE
    LET p1 == 1 + ADDRESS_SIZE_IN_BYTES
        p2 == p1 + VALUE_SIZE_IN_BYTES
        p3 == p2 + RECORD_PAYLOAD_SIZE_IN_BYTES
        p4 == p3 + PROGRAM_ID_SIZE_IN_BYTES
        p5 == p4 + RANDOMIZER_SIZE_IN_BYTES
        owner == FromBytesLE(Slice(bytes, 1, ADDRESS_SIZE_IN_BYTES))
        value == FromBytesLE(Slice(bytes, p1, VALUE_SIZE_IN_BYTES))
        payload == Slice(bytes, p2, RECORD_PAYLOAD_SIZE_IN_BYTES)
        program_id == FromBytesLE(Slice(bytes, p3, PROGRAM_ID_SIZE_IN_BYTES))
        randomizer == FromBytesLE(Slice(bytes, p4, RANDOMIZER_SIZE_IN_BYTES))
        record_view_key == FromBytesLE(Slice(bytes, p5, RECORD_VIEW_KEY_SIZE_IN_BYTES))
    IN  From(owner, value, payload, program_id, record_view_key, randomizer)

\* FromBytes::read_le for Record: the reader yields the fields in turn and
\* fails when it runs out of bytes.
ReadLe(bytes) ==
    IF Len(bytes) < RecordSize THEN Err("UnexpectedEof")
    ELSE
    LET p1 == 1 + ADDRESS_SIZE_IN_BYTES
        p2 == p1 + VALUE_SIZE_IN_BYTES
        p3 == p2 + RECORD_PAYLOAD_SIZE_IN_BYTES
        p4 == p3 + PROGRAM_ID_SIZE_IN_BYTES
        p5 == p4 + RANDOMIZER_SIZE_IN_BYTES
        owner == FromBytesLE(Slice(bytes, 1, ADDRESS_SIZE_IN_BYTES))
        value == FromBytesLE(Slice(bytes, p1, VALUE_SIZE_IN_BYTES))
        payload == Slice(bytes, p2, RECORD_PAYLOAD_SIZE_IN_BYTES)
        program_id == FromBytesLE(Slice(bytes, p3, PROGRAM_ID_SIZE_IN_BYTES))
        randomizer == FromBytesLE(Slice(bytes, p4, RANDOMIZER_SIZE_IN_BYTES))
        record_view_key == FromBytesLE(Slice(bytes, p5, RECORD_VIEW_KEY_SIZE_IN_BYTES))
    IN  From(owner, value, payload, program_id, randomizer, record_view_key)

----------------------------------------------------------------------------
(* The human-readable form: an object whose values are texts.  A text is a *)
(* sequence of characters, a character the digit it stands for (0..15).    *)

RECURSIVE HexEncode(_)
\* Two hexadecimal digits per byte.
HexEncode(bs) ==
    IF bs = <<>> THEN <<>>
    ELSE <<Head(bs) \div 16, Head(bs) % 16>> \o HexEncode(Tail(bs))

RECURSIVE HexDecode(_)
HexDecode(cs) ==
    IF Len(cs) < 2 THEN <<>>
    ELSE <<16 * cs[1] + cs[2]>> \o HexDecode(SubSeq(cs, 3, Len(cs)))

RECURSIVE ToDecimal(_)
\* The decimal digits of n, most significant first.
ToDecimal(n) == IF n < 10 THEN <<n>> ELSE ToDecimal(n \div 10) \o <<n % 10>>

RECURSIVE FromDecimal(_)
FromDecimal(ds) ==
    IF ds = <<>> THEN 0 ELSE 10 * FromDecimal(SubSeq(ds, 1, Len(ds) - 1)) + ds[Len(ds)]

\* Display of a fixed-width number (address, program id, randomizer, key, digest)
NumberToString(n, width) == HexEncode(ToBytesLE(n, width))

\* A text of 2 * width hexadecimal digits, as bytes.
ParseBytes(cs, width) ==
    IF Len(cs) # 2 * width \/ \E i \in 1..Len(cs) : cs[i] \notin 0..15
    THEN Err("ParseError")
    ELSE Ok(HexDecode(cs))

\* serde_json::from_value of a fixed-width number
ParseNumber(cs, width) ==
    LET bytes == ParseBytes(cs, width)
    IN  IF IsOk(bytes) THEN Ok(FromBytesLE(bytes.val)) ELSE bytes

\* serde_json::from_value of a commitment: a canonical field element
ParseCommitment(cs) ==
    LET n == ParseNumber(cs, COMMITMENT_SIZE_IN_BYTES)
    IN  IF IsOk(n) /\ n.val >= CommitmentModulus THEN Err("ParseError") ELSE n

\* serde_json::from_value of a payload
ParsePayload(cs) == ParseBytes(cs, RECORD_PAYLOAD_SIZE_IN_BYTES)

\* serde_json::from_value of a u64 written in decimal
ParseValue(cs) ==
    IF cs = <<>> \/ Len(cs) > 9 \/ \E i \in 1..Len(cs) : cs[i] \notin 0..9
    THEN Err("ParseError")
    ELSE Ok(FromDecimal(cs))

\* Display writing the randomizer and the record view key under each other's
\* names.
ToString_SwappedKeys(r) ==
    [owner |-> NumberToString(r.owner, ADDRESS_SIZE_IN_BYTES),
     value |-> ToDecimal(r.value),
     payload |-> HexEncode(r.payload),
     program_id |-> NumberToString(r.program_id, PROGRAM_ID_SIZE_IN_BYTES),
     randomizer |-> NumberToString(r.record_view_key, RECORD_VIEW_KEY_SIZE_IN_BYTES),
     record_view_key |-> NumberToString(r.randomizer, RANDOMIZER_SIZE_IN_BYTES),
     commitment |-> NumberToString(r.commitment, COMMITMENT_SIZE_IN_BYTES)]

\* Display for Record
ToString(r) ==
    [owner |-> NumberToString(r.owner, ADDRESS_SIZE_IN_BYTES),
     value |-> ToDecimal(r.value),
     payload |-> HexEncode(r.payload),
     program_id |-> NumberToString(r.program_id, PROGRAM_ID_SIZE_IN_BYTES),
     randomizer |-> NumberToString(r.randomizer, RANDOMIZER_SIZE_IN_BYTES),
     record_view_key |-> NumberToString(r.record_view_key, RECORD_VIEW_KEY_SIZE_IN_BYTES),
     commitment |-> NumberToString(r.commitment, COMMITMENT_SIZE_IN_BYTES)]

\* from_str trusting the rebuilt record without the comparison.
FromStr_WithoutCrossCheck(text) ==
    LET commitment == ParseCommitment(text.commitment)
        owner == ParseNumber(text.owner, ADDRESS_SIZE_IN_BYTES)
        value == ParseValue(text.value)
        payload == ParsePayload(text.payload)
        program_id == ParseNumber(text.program_id, PROGRAM_ID_SIZE_IN_BYTES)
        randomizer == ParseNumber(text.randomizer, RANDOMIZER_SIZE_IN_BYTES)
        record_view_key == ParseNumber(text.record_view_key, RECORD_VIEW_KEY_SIZE_IN_BYTES)
    IN  IF ~IsOk(commitment) THEN commitment
        ELSE IF ~IsOk(owner) THEN owner
        ELSE IF ~IsOk(value) THEN value
        ELSE IF ~IsOk(payload) THEN payload
        ELSE IF ~IsOk(program_id) THEN program_id
        ELSE IF ~IsOk(randomizer) THEN randomizer
        ELSE IF ~IsOk(record_view_key) THEN record_view_key
        ELSE From(owner.val, value.val, payload.val, program_id.val,
                  randomizer.val, record_view_key.val)

\* FromStr for Record
FromStr(text) ==
    LET commitment == ParseCommitment(text.commitment)
        owner == ParseNumber(text.owner, ADDRESS_SIZE_IN_BYTES)
        value == ParseValue(text.value)
        payload == ParsePayload(text.payload)
        program_id == ParseNumber(text.program_id, PROGRAM_ID_SIZE_IN_BYTES)
        randomizer == ParseNumber(text.randomizer, RANDOMIZER_SIZE_IN_BYTES)
        record_view_key == ParseNumber(text.record_view_key, RECORD_VIEW_KEY_SIZE_IN_BYTES)
    IN  IF ~IsOk(commitment) THEN commitment
        ELSE IF ~IsOk(owner) THEN owner
        ELSE IF ~IsOk(value) THEN value
        ELSE IF ~IsOk(payload) THEN payload
        ELSE IF ~IsOk(program_id) THEN program_id
        ELSE IF ~IsOk(randomizer) THEN randomizer
        ELSE IF ~IsOk(record_view_key) THEN record_view_key
        ELSE
        LET record == From(owner.val, value.val, payload.val, program_id.val,
                           randomizer.val, record_view_key.val)
        IN  IF ~IsOk(record) THEN record
            ELSE IF commitment.val = record.val.commitment
            THEN record
            ELSE [tag |-> "Err", err |-> "InvalidCommitment",
                  expected |-> NumberToString(commitment.val, COMMITMENT_SIZE_IN_BYTES),
                  actual |-> NumberToString(record.val.commitment, COMMITMENT_SIZE_IN_BYTES)]

----------------------------------------------------------------------------
(* The prover's constraint system (ConstraintSystem<F>).  Field elements    *)
(* are the numbers modulo FieldModulus; a Variable is a kind and a 0-based  *)
(* index; a LinearCombination is a sequence of <<variable, coefficient>>;   *)
(* a lookup table is a set of rows <<a, b, c>>.  Every operation returns    *)
(* the constraint system it leaves behind (cs) and its result (res).        *)

\* The field F.
FieldModulus == 3
FieldOne == 1

\* Bound on the number of calls made on one constraint system.
MaxCalls == 5

\* Variable::new_unchecked(Index::Public(i)) / (Index::Private(i))
Variable(kind, index) == [kind |-> kind, index |-> index]

\* LookupConstraints::new(table): the table and no constraint index yet.
LookupConstraintsNew(table) == [table |-> table, indices |-> {}]

\* LookupConstraints::insert(constraint index)
LookupConstraintsInsert(table_constraints, index) ==
    [table_constraints EXCEPT !.indices = @ \cup {index}]

\* ConstraintSystem::new
ConstraintSystemNew ==
    [public_variables |-> <<FieldOne>>,
     private_variables |-> <<>>,
     num_public_variables |-> 1,
     num_private_variables |-> 0,
     num_constraints |-> 0,
     mul_constraints |-> {},
     lookup_constraints |-> <<>>]

\* ConstraintSystem::add_lookup_table
AddLookupTable(sys, lookup_table) ==
    [cs |-> [sys EXCEPT !.lookup_constraints = Append(@, LookupConstraintsNew(lookup_table))],
     res |-> Ok("unit")]

\* ConstraintSystem::alloc; f is what the value closure returns.
Alloc(sys, f) ==
    LET index == sys.num_private_variables
        counted == [sys EXCEPT !.num_private_variables = @ + 1]
    IN  IF ~IsOk(f) THEN [cs |-> counted, res |-> f]
        ELSE [cs |-> [counted EXCEPT !.private_variables = Append(@, f.val)],
              res |-> Ok(Variable("Private", index))]

\* ConstraintSystem::alloc_input; f is what the value closure returns.
AllocInput(sys, f) ==
    LET index == sys.num_public_variables
        counted == [sys EXCEPT !.num_public_variables = @ + 1]
    IN  IF ~IsOk(f) THEN [cs |-> counted, res |-> f]
        ELSE [cs |-> [counted EXCEPT !.public_variables = Append(@, f.val)],
              res |-> Ok(Variable("Public", index))]

\* ConstraintSystem::enforce
Enforce(sys) ==
    [cs |-> [sys EXCEPT !.mul_constraints = @ \cup {sys.num_constraints},
                        !.num_constraints = @ + 1],
     res |-> Ok("unit")]

\* Whether indexing the variables' values by var is within the vector.
Addresses_Value(sys, var) ==
    IF var.kind = "Public" THEN var.index < Len(sys.public_variables)
    ELSE var.index < Len(sys.private_variables)

\* self.public_variables[index] / self.private_variables[index]
ValueOf(sys, var) ==
    IF var.kind = "Public" THEN sys.public_variables[var.index + 1]
    ELSE sys.private_variables[var.index + 1]

RECURSIVE EvaluateLC(_, _)
\* The sum over the terms of lc of value * coeff.
EvaluateLC(sys, lc) ==
    IF lc = <<>> THEN 0
    ELSE (ValueOf(sys, Head(lc)[1]) * Head(lc)[2] + EvaluateLC(sys, Tail(lc))) % FieldModulus

\* Whether every variable of lc has a value in the vectors.
AllAddressed(sys, lc) == \A i \in 1..Len(lc) : Addresses_Value(sys, lc[i][1])

\* enforce_lookup that counts the constraint although its row is missing.
EnforceLookup_CountsMissingRow(sys, a, b, c, table_index) ==
    IF table_index >= Len(sys.lookup_constraints)
    THEN [cs |-> sys, res |-> Err("LookupTableMissing")]
    ELSE IF ~(AllAddressed(sys, a) /\ AllAddressed(sys, b) /\ AllAddressed(sys, c))
    THEN [cs |-> sys, res |-> Panic("index out of bounds")]
    ELSE
    LET table_constraints == sys.lookup_constraints[table_index + 1]
        evaluated_values == <<EvaluateLC(sys, a), EvaluateLC(sys, b), EvaluateLC(sys, c)>>
    IN  IF \E row \in table_constraints.table : row = evaluated_values
        THEN [cs |-> [sys EXCEPT
                        !.lookup_constraints[table_index + 1] =
                            LookupConstraintsInsert(@, sys.num_constraints),
                        !.num_constraints = @ + 1],
              res |-> Ok("unit")]
        ELSE [cs |-> [sys EXCEPT !.num_constraints = @ + 1],
              res |-> Err("LookupValueMissing")]

\* ConstraintSystem::enforce_lookup; a, b, c are the linear combinations the
\* closures build.
EnforceLookup(sys, a, b, c, table_index) ==
    IF table_index >= Len(sys.lookup_constraints)
    THEN [cs |-> sys, res |-> Err("LookupTableMissing")]
    ELSE IF ~(AllAddressed(sys, a) /\ AllAddressed(sys, b) /\ AllAddressed(sys, c))
    THEN [cs |-> sys, res |-> Panic("index out of bounds")]
    ELSE
    LET table_constraints == sys.lookup_constraints[table_index + 1]
        evaluated_values == <<EvaluateLC(sys, a), EvaluateLC(sys, b), EvaluateLC(sys, c)>>
    IN  IF \E row \in table_constraints.table : row = evaluated_values
        THEN [cs |-> [sys EXCEPT
                        !.lookup_constraints[table_index + 1] =
                            LookupConstraintsInsert(@, sys.num_constraints),
                        !.num_constraints = @ + 1],
              res |-> Ok("unit")]
        ELSE [cs |-> sys, res |-> Err("LookupValueMissing")]

----------------------------------------------------------------------------
(* The state machine.                                                      *)
(*   rec    the record in hand, or NoRecord                                *)
(*   origin the call that returned it                                      *)
(*   art    the last artifact made from rec: its re-encryption, its binary *)
(*          form or its human-readable form                                *)
(*   out    the last recovery, decoding or serial-number call on rec and   *)
(*          its artifacts: its inputs and its result                       *)
(*   again  a further invocation of encrypt on rec after the one that made *)
(*          art                                                            *)

NoRecord == [none |-> TRUE]
NoArt == [kind |-> "none"]
NoOut == [op |-> "none"]

\* What the callers pass in.
ValueInputs == {0, 1234}
PayloadInputs == {PayloadDefault, PayloadOf(258)}
ProgramIdInputs == {NoopProgramId, NoopProgramId + 2}
Randomness == {r + 1 : r \in 1..MaxRandomness}
ViewKeys == {ViewKeyOf(sk) : sk \in PrivateKeys}
ComputeKeys == {ComputeKeyOf(sk) : sk \in PrivateKeys}

\* The ciphertext Record::from built for r (the one r.commitment commits to),
\* with the plaintext's flag byte set to f.
PublishedCiphertext(r, f) ==
    LET plaintext == EncodePlaintext(r.owner, r.value, r.payload, r.program_id).val
    IN  ConstructionCiphertextBytes(r.randomizer, r.record_view_key,
            [plaintext EXCEPT ![ADDRESS_SIZE_IN_BYTES + 1] = f])

\* The flag byte encode_plaintext writes for r.
FlagOf(r) == EncodePlaintext(r.owner, r.value, r.payload, r.program_id).val[ADDRESS_SIZE_IN_BYTES + 1]

\* A ciphertext whose key commitment segment is not that of its key.
WrongKeyCommitment(ciphertext) ==
    [ciphertext EXCEPT ![RANDOMIZER_SIZE_IN_BYTES + 1] = (@ + 1) % 256]

\* The ciphertexts a caller may hold for the record in hand: its
\* re-encryption once encrypt has returned it, and otherwise the ciphertext
\* of its construction and malformed variants of that one.
CiphertextInputs ==
    IF art.kind = "ciphertext"
    THEN (IF IsOk(art.res) THEN {art.res.val} ELSE {})
    ELSE IF art.kind = "none"
    THEN {PublishedCiphertext(rec, FlagOf(rec))}
         \cup {PublishedCiphertext(rec, f) : f \in 0..2}
         \cup {WrongKeyCommitment(PublishedCiphertext(rec, FlagOf(rec)))}
    ELSE {}

\* The plaintexts handed to decode_plaintext: the one encode_plaintext wrote,
\* that one with another flag byte, and that one cut short.
PlaintextInputs ==
    IF art.kind = "plaintext" /\ IsOk(art.res)
    THEN {art.res.val}
         \cup {[art.res.val EXCEPT ![ADDRESS_SIZE_IN_BYTES + 1] = f] : f \in 0..2}
         \cup {SubSeq(art.res.val, 1, Len(art.res.val) - 1)}
    ELSE {}

\* The human-readable forms a caller may hold: the one Display wrote, and
\* that one with a character of the commitment or of the value changed.
TextInputs ==
    IF art.kind # "text" THEN {}
    ELSE {art.text}
         \cup {[art.text EXCEPT !.commitment[i] = d] :
                  i \in 1..Len(art.text.commitment), d \in {0, 1, 15}}
         \cup {[art.text EXCEPT !.value[1] = d] : d \in {0, 7}}

\* No call made on the constraint system yet.
NoCall == [op |-> "none"]

Init ==
    /\ rec = NoRecord
    /\ origin = "none"
    /\ art = NoArt
    /\ out = NoOut
    /\ again = NoOut
    /\ system = ConstraintSystemNew
    /\ handed = {Variable("Public", 0)}
    /\ calls = [made |-> 0, enforce |-> 0, enforce_lookup |-> 0]
    /\ last = NoCall

\* Record::new; its result becomes the record in hand.
CallNew ==
    /\ rec = NoRecord
    /\ \E owner \in Addresses, value \in ValueInputs, payload \in PayloadInputs,
          program_id \in ProgramIdInputs, r \in Randomness :
        LET result == New(owner, value, payload, program_id, r)
        IN  IsOk(result) /\ rec' = result.val
    /\ origin' = "new"
    /\ UNCHANGED <<art, out, again>>
    /\ UNCHANGED csvars

CallNewNoop ==
    /\ rec = NoRecord
    /\ \E owner \in Addresses, r \in Randomness :
        LET result == NewNoop(owner, r)
        IN  IsOk(result) /\ rec' = result.val
    /\ origin' = "new_noop"
    /\ UNCHANGED <<art, out, again>>
    /\ UNCHANGED csvars

\* Record::from with key material of the caller's choice: the randomizer and
\* the record view key agreed with an address, which need not be the owner.
CallFrom ==
    /\ rec = NoRecord
    /\ \E owner \in Addresses, value \in ValueInputs, payload \in PayloadInputs,
          program_id \in ProgramIdInputs, r \in Randomness, recipient \in Addresses :
        LET k == GenerateAsymmetricKey(recipient, r)
            result == From(owner, value, payload, program_id, k.randomizer, k.symmetric_key)
        IN  IsOk(result) /\ rec' = result.val
    /\ origin' = "from"
    /\ UNCHANGED <<art, out, again>>
    /\ UNCHANGED csvars

\* The caller lets go of the record and of what was made from it.
Discard ==
    /\ rec # NoRecord
    /\ art = NoArt
    /\ out = NoOut
    /\ rec' = NoRecord
    /\ origin' = "none"
    /\ art' = NoArt
    /\ out' = NoOut
    /\ again' = NoOut
    /\ UNCHANGED csvars

\* Record::encrypt on the record in hand; a call while its ciphertext is still
\* held is recorded next to it.
CallEncrypt ==
    /\ rec # NoRecord
    /\ out = NoOut
    /\ \/ /\ art = NoArt
          /\ art' = [kind |-> "ciphertext", res |-> Encrypt(rec)]
          /\ UNCHANGED again
       \/ /\ art.kind = "ciphertext"
          /\ again = NoOut
          /\ again' = [op |-> "encrypt", res |-> Encrypt(rec)]
          /\ UNCHANGED art
    /\ UNCHANGED <<rec, origin, out>>
    /\ UNCHANGED csvars

CallWriteLe ==
    /\ rec # NoRecord
    /\ art = NoArt
    /\ out = NoOut
    /\ art' = [kind |-> "binary", bytes |-> WriteLe(rec)]
    /\ out' = NoOut
    /\ UNCHANGED <<rec, origin, again>>
    /\ UNCHANGED csvars

CallToString ==
    /\ rec # NoRecord
    /\ art = NoArt
    /\ out = NoOut
    /\ art' = [kind |-> "text", text |-> ToString(rec)]
    /\ out' = NoOut
    /\ UNCHANGED <<rec, origin, again>>
    /\ UNCHANGED csvars

CallEncodePlaintext ==
    /\ rec # NoRecord
    /\ art = NoArt
    /\ out = NoOut
    /\ art' = [kind |-> "plaintext",
               res |-> EncodePlaintext(rec.owner, rec.value, rec.payload, rec.program_id)]
    /\ UNCHANGED <<rec, origin, out, again>>
    /\ UNCHANGED csvars

CallDecodePlaintext ==
    /\ out = NoOut
    /\ \E p \in PlaintextInputs :
        out' = [op |-> "decode_plaintext", plaintext |-> p, res |-> DecodePlaintext(p)]
    /\ UNCHANGED <<rec, origin, art, again>>
    /\ UNCHANGED csvars

CallToSerialNumber ==
    /\ rec # NoRecord
    /\ out = NoOut
    /\ \E ck \in ComputeKeys :
        out' = [op |-> "to_serial_number", compute_key |-> ck,
                res |-> ToSerialNumber(rec, ck)]
    /\ UNCHANGED <<rec, origin, art, again>>
    /\ UNCHANGED csvars

CallFromAccountViewKey ==
    /\ rec # NoRecord
    /\ out = NoOut
    /\ \E vk \in ViewKeys, c \in CiphertextInputs :
        out' = [op |-> "from_account_view_key", account_view_key |-> vk,
                ciphertext |-> c, res |-> FromAccountViewKey(vk, c)]
    /\ UNCHANGED <<rec, origin, art, again>>
    /\ UNCHANGED csvars

CallFromRecordViewKey ==
    /\ rec # NoRecord
    /\ out = NoOut
    /\ \E vk \in ViewKeys, c \in CiphertextInputs :
        LET key == GenerateSymmetricKey(vk, CiphertextRandomizer(c))
        IN  out' = [op |-> "from_record_view_key", record_view_key |-> key,
                    ciphertext |-> c, res |-> FromRecordViewKey(key, c)]
    /\ UNCHANGED <<rec, origin, art, again>>
    /\ UNCHANGED csvars

CallReadLe ==
    /\ art.kind = "binary"
    /\ out = NoOut
    /\ out' = [op |-> "read_le", bytes |-> art.bytes, res |-> ReadLe(art.bytes)]
    /\ UNCHANGED <<rec, origin, art, again>>
    /\ UNCHANGED csvars

CallFromStr ==
    /\ out = NoOut
    /\ \E t \in TextInputs :
        out' = [op |-> "from_str", text |-> t, res |-> FromStr(t)]
    /\ UNCHANGED <<rec, origin, art, again>>
    /\ UNCHANGED csvars

\* The caller lets go of the last result.
Forget ==
    /\ out # NoOut \/ again # NoOut
    /\ out' = NoOut
    /\ again' = NoOut
    /\ UNCHANGED <<rec, origin, art>>
    /\ UNCHANGED csvars

\* The caller lets go of the last artifact.
Release ==
    /\ art # NoArt
    /\ out = NoOut
    /\ art' = NoArt
    /\ again' = NoOut
    /\ UNCHANGED <<rec, origin, out>>
    /\ UNCHANGED csvars

\* The caller goes on with the record a recovery or a decoding returned.
Adopt ==
    /\ out.op \in {"from_account_view_key", "from_record_view_key", "read_le", "from_str"}
    /\ IsOk(out.res)
    /\ rec' = out.res.val
    /\ origin' = out.op
    /\ art' = NoArt
    /\ out' = NoOut
    /\ again' = NoOut
    /\ UNCHANGED csvars

Next ==
    \/ CallNew
    \/ CallNewNoop
    \/ CallFrom
    \/ Discard
    \/ CallEncrypt
    \/ CallWriteLe
    \/ CallToString
    \/ CallEncodePlaintext
    \/ CallDecodePlaintext
    \/ CallToSerialNumber
    \/ CallFromAccountViewKey
    \/ CallFromRecordViewKey
    \/ CallReadLe
    \/ CallFromStr
    \/ Adopt
    \/ Forget
    \/ Release

Spec == Init /\ [][Next]_vars

----------------------------------------------------------------------------
(* The calls on the constraint system.                                     *)
(*   system  the ConstraintSystem                                          *)
(*   handed  the variables the caller holds: the constant one and those    *)
(*           alloc and alloc_input returned                                *)
(*   calls   how many calls were made, how many of them enforce calls and  *)
(*           how many successful enforce_lookup calls                      *)
(*   last    the last call, its result, and for enforce_lookup the         *)
(*           constraint system before it                                   *)

\* What the value closures of alloc and alloc_input return.
ClosureResults ==
    {Ok(v) : v \in 1..(FieldModulus - 1)} \cup {Err("AssignmentMissing")}

\* The tables a caller registers.
TableInputs == {{<<0, 0, 0>>, <<1, 1, 1>>}, {<<1, 2, 0>>, <<2, 1, 0>>}}

\* The linear combinations the closures of enforce_lookup build from the
\* variables the caller holds: the empty one and single variables.
LinearCombinations == {<<>>} \cup {<< <<v, 1>> >> : v \in handed}
\* Those built for c: the empty one and the constant one.
ConstantCombinations == {<<>>, << <<Variable("Public", 0), 1>> >>}

CallAddLookupTable ==
    /\ calls.made < MaxCalls
    /\ \E table \in TableInputs :
        LET r == AddLookupTable(system, table)
        IN  /\ system' = r.cs
            /\ last' = [op |-> "add_lookup_table", res |-> r.res]
    /\ calls' = [calls EXCEPT !.made = @ + 1]
    /\ UNCHANGED handed
    /\ UNCHANGED recvars

CallAlloc ==
    /\ calls.made < MaxCalls
    /\ \E f \in ClosureResults :
        LET r == Alloc(system, f)
        IN  /\ system' = r.cs
            /\ handed' = IF IsOk(r.res) THEN handed \cup {r.res.val} ELSE handed
            /\ last' = [op |-> "alloc", res |-> r.res]
    /\ calls' = [calls EXCEPT !.made = @ + 1]
    /\ UNCHANGED recvars

CallAllocInput ==
    /\ calls.made < MaxCalls
    /\ \E f \in ClosureResults :
        LET r == AllocInput(system, f)
        IN  /\ system' = r.cs
            /\ handed' = IF IsOk(r.res) THEN handed \cup {r.res.val} ELSE handed
            /\ last' = [op |-> "alloc_input", res |-> r.res]
    /\ calls' = [calls EXCEPT !.made = @ + 1]
    /\ UNCHANGED recvars

CallEnforce ==
    /\ calls.made < MaxCalls
    /\ LET r == Enforce(system)
       IN  /\ system' = r.cs
           /\ last' = [op |-> "enforce", res |-> r.res]
    /\ calls' = [calls EXCEPT !.made = @ + 1, !.enforce = @ + 1]
    /\ UNCHANGED handed
    /\ UNCHANGED recvars

\* enforce_lookup with a table index that may be one past the tables.
CallEnforceLookup ==
    /\ calls.made < MaxCalls
    /\ \E a \in LinearCombinations, b \in LinearCombinations, c \in ConstantCombinations,
          table_index \in 0..Len(system.lookup_constraints) :
        LET r == EnforceLookup(system, a, b, c, table_index)
        IN  /\ system' = r.cs
            /\ last' = [op |-> "enforce_lookup", res |-> r.res, before |-> system]
            /\ calls' = IF IsOk(r.res)
                        THEN [calls EXCEPT !.made = @ + 1, !.enforce_lookup = @ + 1]
                        ELSE [calls EXCEPT !.made = @ + 1]
    /\ UNCHANGED handed
    /\ UNCHANGED recvars

NextCS ==
    \/ CallAddLookupTable
    \/ CallAlloc
    \/ CallAllocInput
    \/ CallEnforce
    \/ CallEnforceLookup

SpecCS == Init /\ [][NextCS]_vars

----------------------------------------------------------------------------
(* Properties.                                                             *)

ConstructionOrigins == {"new", "new_noop"}
RecoveryOps == {"from_account_view_key", "from_record_view_key"}
DecodeOps == RecoveryOps \cup {"read_le", "from_str"}

\* The record view key a recovery call decrypts with.
KeyOfCall(call) ==
    IF call.op = "from_account_view_key"
    THEN GenerateSymmetricKey(call.account_view_key, CiphertextRandomizer(call.ciphertext))
    ELSE call.record_view_key

\* The ciphertext the construction of r built, which r.commitment commits to.
IssuedCiphertext(r) == PublishedCiphertext(r, FlagOf(r))

\* A payload all of whose bytes are zero.
AllZero(payload) == \A i \in 1..Len(payload) : payload[i] = 0

\* C1 (recovery correctness): for a record r freshly constructed by new for
\* owner O, from_account_view_key(viewkey(O), r.encrypt()) succeeds and
\* returns a record equal to r in all fields.
C1_RecoveryCorrectness ==
    (/\ out.op = "from_account_view_key"
     /\ origin \in ConstructionOrigins
     /\ art.kind = "ciphertext"
     /\ IsOk(art.res)
     /\ out.ciphertext = art.res.val
     /\ AddressFromViewKey(out.account_view_key) = rec.owner)
    => (IsOk(out.res) /\ out.res.val = rec)

\* The commitment over the ciphertext of the construction of r and r's owner,
\* with the randomness derived from r's record view key.
CommitmentOfFields(r) ==
    Commit(ToBytesLE(r.randomizer, RANDOMIZER_SIZE_IN_BYTES)
           \o GenerateKeyCommitment(r.record_view_key)
           \o SymmetricEncrypt(r.record_view_key,
                  EncodePlaintext(r.owner, r.value, r.payload, r.program_id).val)
           \o ToBytesLE(r.owner, ADDRESS_SIZE_IN_BYTES),
           FromBytesLE(ToBytesLE(r.record_view_key, RECORD_VIEW_KEY_SIZE_IN_BYTES))
               % ScalarModulus)

\* C2 (commitment invariant): every record a construction, recovery or
\* decoding path returns carries the commitment of the ciphertext of its
\* construction and its owner, under the randomness derived from its record
\* view key; a recovered record carries the commitment from yields on its
\* fields.
C2_CommitmentInvariant ==
    /\ rec # NoRecord => rec.commitment = CommitmentOfFields(rec)
    /\ (out.op \in DecodeOps /\ IsOk(out.res)) =>
          LET r == out.res.val
          IN  /\ r.commitment = CommitmentOfFields(r)
              /\ Ok(r) = From(r.owner, r.value, r.payload, r.program_id,
                              r.randomizer, r.record_view_key)

\* A recovery from a ciphertext returned a record.
C2_Witness ==
    /\ out.op \in RecoveryOps
    /\ IsOk(out.res)
    /\ origin = "from_account_view_key"

\* C3 (serial-number authorization): to_serial_number(r, k) fails with
\* IncorrectComputeKey when the address derived from k is not r.owner, and
\* otherwise returns the PRF of the seed of k's sk_prf at r.commitment.
C3_SerialNumberAuthorization ==
    out.op = "to_serial_number" =>
        IF AddressFromComputeKey(out.compute_key) # rec.owner
        THEN out.res = Err("IncorrectComputeKey")
        ELSE out.res = Ok(PRFEvaluate(out.compute_key.sk_prf, rec.commitment))

\* to_serial_number refused a compute key of another account.
C3_Witness ==
    /\ out.op = "to_serial_number"
    /\ out.res = Err("IncorrectComputeKey")
    /\ AddressFromComputeKey(out.compute_key) # rec.owner

\* The fields of a human-readable form all parse.
AllParse(t) ==
    /\ IsOk(ParseCommitment(t.commitment))
    /\ IsOk(ParseNumber(t.owner, ADDRESS_SIZE_IN_BYTES))
    /\ IsOk(ParseValue(t.value))
    /\ IsOk(ParsePayload(t.payload))
    /\ IsOk(ParseNumber(t.program_id, PROGRAM_ID_SIZE_IN_BYTES))
    /\ IsOk(ParseNumber(t.randomizer, RANDOMIZER_SIZE_IN_BYTES))
    /\ IsOk(ParseNumber(t.record_view_key, RECORD_VIEW_KEY_SIZE_IN_BYTES))

\* The record from builds from the parsed fields of a human-readable form.
RebuiltFrom(t) ==
    From(ParseNumber(t.owner, ADDRESS_SIZE_IN_BYTES).val,
         ParseValue(t.value).val,
         ParsePayload(t.payload).val,
         ParseNumber(t.program_id, PROGRAM_ID_SIZE_IN_BYTES).val,
         ParseNumber(t.randomizer, RANDOMIZER_SIZE_IN_BYTES).val,
         ParseNumber(t.record_view_key, RECORD_VIEW_KEY_SIZE_IN_BYTES).val)

\* C4 (human-readable cross-check): decoding a text whose fields all parse
\* and whose embedded commitment differs from the recomputed one fails with
\* InvalidCommitment(expected = embedded, actual = recomputed); the record is
\* returned only when the two are equal.
C4_TextCrossCheck ==
    (out.op = "from_str" /\ AllParse(out.text)) =>
        LET embedded == ParseCommitment(out.text.commitment).val
            rebuilt == RebuiltFrom(out.text).val
        IN  IF embedded # rebuilt.commitment
            THEN /\ out.res.tag = "Err"
                 /\ out.res.err = "InvalidCommitment"
                 /\ out.res.expected = out.text.commitment
                 /\ out.res.actual = HexEncode(ToBytesLE(rebuilt.commitment,
                                                         COMMITMENT_SIZE_IN_BYTES))
            ELSE out.res = Ok(rebuilt)

\* A text with a changed commitment character was refused.
C4_Witness ==
    /\ out.op = "from_str"
    /\ AllParse(out.text)
    /\ out.text.commitment # ToString(rec).commitment
    /\ out.res.tag = "Err"
    /\ out.res.err = "InvalidCommitment"

\* C5 (human-readable round trip): from_str(r.to_string()) succeeds and
\* equals r, for constructed and for recovered records.
C5_TextRoundTrip ==
    (out.op = "from_str" /\ rec # NoRecord /\ out.text = ToString(rec)) =>
        out.res = Ok(rec)

\* A recovered record went through its human-readable form.
C5_Witness ==
    /\ out.op = "from_str"
    /\ origin \in RecoveryOps
    /\ out.text = ToString(rec)
    /\ out.res = Ok(rec)

\* C6 (binary round trip): read_le(write_le(r)) equals r; the binary form is
\* owner, value, payload, program_id, randomizer, record_view_key and holds
\* no commitment.
C6_BinaryRoundTrip ==
    /\ art.kind = "binary" =>
          /\ Len(art.bytes) = ADDRESS_SIZE_IN_BYTES + 8 + RECORD_PAYLOAD_SIZE_IN_BYTES
                              + PROGRAM_ID_SIZE_IN_BYTES + RANDOMIZER_SIZE_IN_BYTES
                              + RECORD_VIEW_KEY_SIZE_IN_BYTES
          /\ art.bytes = ToBytesLE(rec.owner, ADDRESS_SIZE_IN_BYTES)
                         \o ToBytesLE(rec.value, 8)
                         \o rec.payload
                         \o ToBytesLE(rec.program_id, PROGRAM_ID_SIZE_IN_BYTES)
                         \o ToBytesLE(rec.randomizer, RANDOMIZER_SIZE_IN_BYTES)
                         \o ToBytesLE(rec.record_view_key, RECORD_VIEW_KEY_SIZE_IN_BYTES)
    /\ (out.op = "read_le" /\ art.kind = "binary") =>
          /\ out.bytes = art.bytes
          /\ out.res = Ok(rec)

\* A recovered record went through its binary form.
C6_Witness ==
    /\ out.op = "read_le"
    /\ origin \in RecoveryOps
    /\ out.res = Ok(rec)
    /\ rec.value # 0

\* The result of decrypting and decoding the ciphertext of a recovery call
\* under the key of its view key.
DecodedOf(call) ==
    LET plaintext == ToPlaintext(call.ciphertext, KeyOfCall(call))
    IN  IF IsOk(plaintext) THEN DecodePlaintext(plaintext.val) ELSE plaintext

\* C7 as stated (ownership check): from_account_view_key fails with
\* IncorrectOwner whenever the decoded owner is not the address of the view
\* key; in particular recovering a record issued to O with the view key of
\* another owner fails with IncorrectOwner.
C7_WrongViewKeyIsIncorrectOwner ==
    out.op = "from_account_view_key" =>
        /\ (IsOk(DecodedOf(out))
            /\ DecodedOf(out).val.owner # AddressFromViewKey(out.account_view_key))
           => out.res = Err("IncorrectOwner")
        /\ (/\ origin \in ConstructionOrigins
            /\ out.ciphertext = IssuedCiphertext(rec)
            /\ AddressFromViewKey(out.account_view_key) # rec.owner)
           => out.res = Err("IncorrectOwner")

\* C7 as amended: from_account_view_key fails with IncorrectOwner whenever
\* the plaintext decrypts and decodes to an owner that is not the address of
\* the view key, and every record it returns is owned by that address;
\* recovering a record issued to O with the view key of another owner returns
\* no record (the failure is that of the first step the wrong key breaks, not
\* necessarily IncorrectOwner).
C7_OwnershipCheck ==
    out.op = "from_account_view_key" =>
        /\ (IsOk(DecodedOf(out))
            /\ DecodedOf(out).val.owner # AddressFromViewKey(out.account_view_key))
           => out.res = Err("IncorrectOwner")
        /\ IsOk(out.res) => out.res.val.owner = AddressFromViewKey(out.account_view_key)
        /\ (/\ origin \in ConstructionOrigins
            /\ out.ciphertext = IssuedCiphertext(rec)
            /\ AddressFromViewKey(out.account_view_key) # rec.owner)
           => ~IsOk(out.res)

\* A ciphertext that decrypts under the view key's key to another owner's
\* record was refused.
C7_Witness ==
    /\ out.op = "from_account_view_key"
    /\ IsOk(DecodedOf(out))
    /\ DecodedOf(out).val.owner # AddressFromViewKey(out.account_view_key)
    /\ out.res = Err("IncorrectOwner")

\* The flag byte of a plaintext and the dummy predicate of the fields it
\* holds, read off its bytes.
FlagByte(plaintext) == plaintext[ADDRESS_SIZE_IN_BYTES + 1]

PredicateOfBytes(plaintext) ==
    LET a == ADDRESS_SIZE_IN_BYTES
        n == Len(plaintext)
    IN  /\ \A i \in (a + 2)..(a + 9) : plaintext[i] = 0
        /\ \A i \in (a + 10)..(n - PROGRAM_ID_SIZE_IN_BYTES) : plaintext[i] = 0
        /\ SubSeq(plaintext, n - PROGRAM_ID_SIZE_IN_BYTES + 1, n)
               = ToBytesLE(NoopProgramId, PROGRAM_ID_SIZE_IN_BYTES)

FlagAgrees(plaintext) ==
    FlagByte(plaintext) = (IF PredicateOfBytes(plaintext) THEN 1 ELSE 0)

FullWidth(plaintext) ==
    Len(plaintext) = 1 + ADDRESS_SIZE_IN_BYTES + 8 + RECORD_PAYLOAD_SIZE_IN_BYTES
                     + PROGRAM_ID_SIZE_IN_BYTES

\* C8 (dummy-flag check): decode_plaintext returns the fields of a plaintext
\* of the correct width only if its flag byte equals the dummy predicate of
\* the decoded fields, and fails with MalformedDummyFlag otherwise (flag
\* values other than 0 and 1 included), on both recovery paths too.
C8_DummyFlagCheck ==
    /\ (out.op = "decode_plaintext" /\ FullWidth(out.plaintext)) =>
          IF FlagAgrees(out.plaintext) THEN IsOk(out.res)
          ELSE out.res = Err("MalformedDummyFlag")
    /\ out.op \in RecoveryOps =>
          LET plaintext == ToPlaintext(out.ciphertext, KeyOfCall(out))
          IN  (IsOk(plaintext) /\ FullWidth(plaintext.val)) =>
                 IF FlagAgrees(plaintext.val)
                 THEN out.res \notin {Err("MalformedDummyFlag"),
                                      Panic("assert_eq plaintext.len()")}
                 ELSE out.res = Err("MalformedDummyFlag")

\* A recovery refused a plaintext whose flag byte is neither 0 nor 1.
C8_Witness ==
    /\ out.op = "from_record_view_key"
    /\ IsOk(ToPlaintext(out.ciphertext, KeyOfCall(out)))
    /\ FlagByte(ToPlaintext(out.ciphertext, KeyOfCall(out)).val) = 2
    /\ out.res = Err("MalformedDummyFlag")

\* C9 (dummy predicate): r.is_dummy() holds exactly when r.value is 0, the
\* payload is empty and the program id is the noop program id; new_noop
\* returns a dummy.
C9_DummyPredicate ==
    rec # NoRecord =>
        /\ IsDummy(rec) <=> (rec.value = 0 /\ AllZero(rec.payload)
                             /\ rec.program_id = NoopProgramId)
        /\ origin = "new_noop" => IsDummy(rec)

\* A record with zero value and empty payload under another program is in
\* hand, and it is no dummy.
C9_Witness ==
    /\ rec # NoRecord
    /\ rec.value = 0
    /\ AllZero(rec.payload)
    /\ rec.program_id # NoopProgramId
    /\ ~IsDummy(rec)

\* C10 (plaintext codec inverse): encode_plaintext writes
\* 1 + |owner| + 8 + |payload| + |program_id| bytes whatever the content, and
\* decode_plaintext of them returns exactly the fields encoded.
C10_PlaintextCodecInverse ==
    /\ art.kind = "plaintext" =>
          /\ IsOk(art.res)
          /\ FullWidth(art.res.val)
    /\ (out.op = "decode_plaintext" /\ art.kind = "plaintext"
        /\ out.plaintext = art.res.val) =>
          out.res = Ok([owner |-> rec.owner, value |-> rec.value,
                        payload |-> rec.payload, program_id |-> rec.program_id])

\* The plaintext of a record that is no dummy was decoded back.
C10_Witness ==
    /\ out.op = "decode_plaintext"
    /\ art.kind = "plaintext"
    /\ out.plaintext = art.res.val
    /\ IsOk(out.res)
    /\ rec.value # 0

----------------------------------------------------------------------------
(* Re-encryption.                                                          *)

\* A ciphertext of the construction with its key commitment segment cut out.
WithoutKeyCommitment(ciphertext) ==
    SubSeq(ciphertext, 1, RANDOMIZER_SIZE_IN_BYTES)
    \o SubSeq(ciphertext, RANDOMIZER_SIZE_IN_BYTES + KEY_COMMITMENT_SIZE_IN_BYTES + 1,
              Len(ciphertext))

\* randomizer, then the encryption of the plaintext of r under r's record
\* view key.
RandomizerAndEncryption(r) ==
    ToBytesLE(r.randomizer, RANDOMIZER_SIZE_IN_BYTES)
    \o SymmetricEncrypt(r.record_view_key,
           EncodePlaintext(r.owner, r.value, r.payload, r.program_id).val)

\* C11 (re-encryption): for every record r, r.encrypt() returns exactly
\* randomizer followed by encrypt(record_view_key, plaintext(r)), which is
\* byte for byte the ciphertext the construction (from) built for r with the
\* key commitment segment removed; a repeated call on the same r returns the
\* same ciphertext.
C11_Reencryption ==
    /\ art.kind = "ciphertext" =>
          /\ art.res = Ok(RandomizerAndEncryption(rec))
          /\ art.res.val = WithoutKeyCommitment(IssuedCiphertext(rec))
          /\ Len(art.res.val) = Len(IssuedCiphertext(rec)) - KEY_COMMITMENT_SIZE_IN_BYTES
    /\ again.op = "encrypt" =>
          /\ again.res = Ok(RandomizerAndEncryption(rec))
          /\ again.res = art.res

\* encrypt was called twice on a record that is not a dummy and that came out
\* of a recovery.
C11_Witness ==
    /\ art.kind = "ciphertext"
    /\ IsOk(art.res)
    /\ again.op = "encrypt"
    /\ IsOk(again.res)
    /\ rec.value # 0
    /\ origin \in RecoveryOps

----------------------------------------------------------------------------
(* The prover's constraint system.                                         *)

\* C13 (variable-count invariant): in every state reachable from
\* ConstraintSystem::new() by alloc, alloc_input, enforce and enforce_lookup
\* calls, those whose value closure returns an error included,
\* num_public_variables is the length of public_variables and
\* num_private_variables the length of private_variables, so that every
\* variable handed out addresses a value.
C13_VariableCountInvariant ==
    /\ system.num_public_variables = Len(system.public_variables)
    /\ system.num_private_variables = Len(system.private_variables)
    /\ \A v \in handed : Addresses_Value(system, v)

\* The places that record the constraint index i: mul_constraints ("mul") and
\* the lookup tables (their positions).
PlacesOf(i) ==
    (IF i \in system.mul_constraints THEN {"mul"} ELSE {})
    \cup {t \in 1..Len(system.lookup_constraints) :
             i \in system.lookup_constraints[t].indices}

LookupFailures == {Err("LookupTableMissing"), Err("LookupValueMissing")}

\* C14 (constraint-index partition): num_constraints is the number of enforce
\* calls plus the number of successful enforce_lookup calls; every index in
\* 0..num_constraints-1 is recorded in exactly one place, mul_constraints or
\* the constraint set of one lookup table; and an enforce_lookup that fails
\* with LookupTableMissing or LookupValueMissing leaves num_constraints,
\* mul_constraints and the lookup constraint sets as they were.
C14_ConstraintIndexPartition ==
    /\ system.num_constraints = calls.enforce + calls.enforce_lookup
    /\ \A i \in 0..(system.num_constraints - 1) : Cardinality(PlacesOf(i)) = 1
    /\ (last.op = "enforce_lookup" /\ last.res \in LookupFailures) =>
          /\ system.num_constraints = last.before.num_constraints
          /\ system.mul_constraints = last.before.mul_constraints
          /\ system.lookup_constraints = last.before.lookup_constraints

\* An enforce_lookup found its row missing after an enforce and a successful
\* enforce_lookup had been recorded.
C14_Witness ==
    /\ last.op = "enforce_lookup"
    /\ last.res = Err("LookupValueMissing")
    /\ calls.enforce >= 1
    /\ calls.enforce_lookup >= 1
    /\ system.mul_constraints # {}
    /\ \E t \in 1..Len(system.lookup_constraints) :
          system.lookup_constraints[t].indices # {}

====
